---------------------------- MODULE Spec2Model ----------------------------
(***************************************************************************)
(* Model of the chunk / transcribe / reassemble pipeline of                *)
(* groover-podcast-automation:                                             *)
(*   src/src/audio_processing.py  AudioProcessor.chunk_audio,              *)
(*                                AudioProcessor.chunk_audio_by_size,      *)
(*                                save_chunks, process_file, cleanup,      *)
(*                                process_batch_files                      *)
(*   src/src/translation.py       TranslationService.translate_parallel    *)
(*   src/src/transcription.py     TranscriptionService.transcribe_audio,   *)
(*                                transcribe_chunks_sequential,            *)
(*                                reassemble_transcription,                *)
(*                                transcribe_file                          *)
(*                                                                         *)
(* Seven specifications share the module's variables:                      *)
(*   SpecPartition   one run of the partitioner loop                       *)
(*   Spec            one call of transcribe_file, or one direct call of    *)
(*                   transcribe_chunks_sequential                          *)
(*   SpecReassemble  two direct calls of reassemble_transcription on one   *)
(*                   list of chunk results, in any order of chunk_index    *)
(*   SpecTwice       two transcribe_file calls in a row on one service     *)
(*   SpecBatch       one call of process_batch_files                       *)
(*   SpecProcessor   an AudioProcessor used directly: process_file and     *)
(*                   cleanup calls in any order                            *)
(*   SpecTranslate   one call of translate_parallel                        *)
(*                                                                         *)
(* Python values: a dict is a function on its keys (an absent key is not   *)
(* in DOMAIN), a list is a sequence, None is the empty tuple and a value   *)
(* that may be None is wrapped as a one-element tuple.                     *)
(***************************************************************************)
EXTENDS Integers, Sequences, FiniteSets, TLC

VARIABLES
    \* ---- the partitioner (chunk_audio / chunk_audio_by_size) ----
    fn,                 \* which of the two functions runs
    audio_length,       \* len(audio), in ms
    chunk_duration_ms,  \* the bound: the parameter, or the fixed 600000
    start_ms,           \* the loop variable of range(0, audio_length, step)
    chunks,             \* the list built so far: spans [start, end)
    ppc,                \* "idle" | "loop" | "done" | "error"
    \* ---- transcribe_file and the Runner ----
    entry,              \* the method called: "transcribe_file" or, directly,
                        \* "transcribe_chunks_sequential"
    chunk_paths,        \* the argument: the chunk artifact paths
    language,           \* the argument: the language hint, or None
    observer,           \* progress_callback: "none" | "ok" | "faulty"
    pc,                 \* "idle" | "entry" | "runner" | "runner_returned" |
                        \* "returned" | "raised"
    i,                  \* the Runner's loop index (0-based)
    results,            \* the Runner's list of chunk results
    calls,              \* the Transcriber calls made, as 0-based chunk positions
    outcomes,           \* what each of those calls met (an error or a response)
    progress,           \* the fractions handed to the observer, in order
    ret,                \* the dict transcribe_file returned
    \* ---- direct calls of reassemble_transcription ----
    first_ret,          \* what the first of two calls on the same list returned
    given,              \* the list as it was before the first call
    \* ---- the TranscriptionService object over two transcribe_file calls ----
    service,            \* self.model and self.prompt_context
    invocation,         \* 1 during the first call, 2 during the second
    \* ---- process_batch_files ----
    files,              \* the argument: the uploaded files
    file_index,         \* the loop index i of `for i, file in enumerate(files)`
    processed,          \* results['processed']
    failed_files,       \* results['failed']
    total_duration,     \* results['total_duration'], in ms (the code keeps minutes)
    temp_dir,           \* processor.temp_dir: "none" | "allocated" | "released"
    writes,             \* the files written into temp_dir, in order
    exports,            \* one entry per save_chunks call: what it was asked and did
    bpc,                \* "idle" | "start" | "loop" | "returned" | "processor"
    \* ---- translate_parallel ----
    target_languages,   \* the argument: the language codes
    worker_outcomes,    \* what each submitted translate_content call meets
    pending,            \* the futures as_completed has not yielded yet
    translations,       \* the list `results`
    lpc                 \* "idle" | "collect" | "returned"

pvars == <<fn, audio_length, chunk_duration_ms, start_ms, chunks, ppc>>
rvars == <<first_ret, given>>
tvars == <<entry, chunk_paths, language, observer, pc, i, results, calls, outcomes, progress, ret,
           first_ret, given>>
svars == <<service, invocation>>
bvars == <<files, file_index, processed, failed_files, total_duration, temp_dir, writes,
           exports, bpc>>
lvars == <<target_languages, worker_outcomes, pending, translations, lpc>>
\* the components other than the partitioner, transcribe_file and the reassembler
ovars == <<svars, bvars, lvars>>
vars == <<fn, audio_length, chunk_duration_ms, start_ms, chunks, ppc,
          entry, chunk_paths, language, observer, pc, i, results, calls, outcomes,
          progress, ret, first_ret, given,
          service, invocation,
          files, file_index, processed, failed_files, total_duration, temp_dir, writes, exports,
          bpc,
          target_languages, worker_outcomes, pending, translations, lpc>>

-----------------------------------------------------------------------------
(* Bounds of the model *)

\* largest audio duration handed to chunk_audio, in ms
MaxAudioMs == 12
\* largest chunk bound handed to chunk_audio, in ms
MaxChunkMs == 5
\* chunk_audio_by_size is run on durations around 0 .. MaxSpans multiples of its bound
MaxSpans == 3
\* largest number of chunk paths handed to transcribe_file
MaxChunks == 3
\* longest list of chunk results handed directly to reassemble_transcription
MaxShuffled == 2
\* largest number of files handed to process_batch_files
MaxFiles == 2
\* longest list of target languages handed to translate_parallel
MaxLanguages == 3

-----------------------------------------------------------------------------
(* Python values *)

None == <<>>
Some(v) == <<v>>
Val(o) == o[1]

\* dict.get(key, default)
Get(d, key, default) == IF key \in DOMAIN d THEN d[key] ELSE default

\* truth value of a number-or-None (None and 0 are falsy)
TruthyNum(o) == o # None /\ Val(o) # 0

\* truth value of a str
TruthyStr(s) == s # ""

Min(a, b) == IF a <= b THEN a ELSE b

-----------------------------------------------------------------------------
(* The partitioner: audio_processing.py, chunk_audio and chunk_audio_by_size *)

\* the fixed bound of chunk_audio_by_size
FixedChunkMs == 600000

\* range(start, stop, step) is exhausted at position `start`
RangeDoneOffByOne(start, stop, step) ==
    IF step > 0 THEN start > stop ELSE start <= stop
RangeDone(start, stop, step) ==
    IF step > 0 THEN start >= stop ELSE start <= stop

\* end_ms = min(start_ms + chunk_duration_ms, audio_length)
ChunkEndUnclamped(start, bound, length) == start + bound
ChunkEnd(start, bound, length) == Min(start + bound, length)

\* the durations chunk_audio_by_size is run on: around the multiples of its bound
SizeDurations ==
    {d \in {k * FixedChunkMs + e : k \in 0..MaxSpans, e \in {-1, 0, 1, 250000}} : d >= 0}

TranscribeIdle ==
    /\ entry = "none"
    /\ chunk_paths = <<>>
    /\ language = None
    /\ observer = "none"
    /\ pc = "idle"
    /\ i = 0
    /\ results = <<>>
    /\ calls = <<>>
    /\ outcomes = <<>>
    /\ progress = <<>>
    /\ ret = <<>>
    /\ first_ret = <<>>
    /\ given = <<>>

\* the service as TranscriptionService() constructs it
DefaultService == [model |-> "whisper-1", prompt_context |-> None]

ServiceIdle ==
    /\ service = DefaultService
    /\ invocation = 1

BatchIdle ==
    /\ files = <<>>
    /\ file_index = 0
    /\ processed = <<>>
    /\ failed_files = <<>>
    /\ total_duration = 0
    /\ temp_dir = "none"
    /\ writes = <<>>
    /\ exports = <<>>
    /\ bpc = "idle"

TranslateIdle ==
    /\ target_languages = <<>>
    /\ worker_outcomes = <<>>
    /\ pending = {}
    /\ translations = <<>>
    /\ lpc = "idle"

OthersIdle == ServiceIdle /\ BatchIdle /\ TranslateIdle

PartitionIdle ==
    /\ fn = "none"
    /\ audio_length = 0
    /\ chunk_duration_ms = 1
    /\ start_ms = 0
    /\ chunks = <<>>
    /\ ppc = "idle"

InitPartition ==
    /\ \/ /\ fn = "chunk_audio"
          /\ audio_length \in 0..MaxAudioMs
          /\ chunk_duration_ms \in -1..MaxChunkMs
       \/ /\ fn = "chunk_audio_by_size"
          /\ audio_length \in SizeDurations
          /\ chunk_duration_ms = FixedChunkMs
    /\ start_ms = 0
    /\ chunks = <<>>
    /\ ppc = "loop"
    /\ TranscribeIdle
    /\ OthersIdle

\* range() with a zero step raises ValueError before the loop starts
ChunkRaise ==
    /\ ppc = "loop"
    /\ chunk_duration_ms = 0
    /\ ppc' = "error"
    /\ UNCHANGED <<fn, audio_length, chunk_duration_ms, start_ms, chunks>>
    /\ UNCHANGED <<tvars, ovars>>

\* one iteration of the for loop: slice [start_ms, end_ms) and append it
ChunkStep ==
    /\ ppc = "loop"
    /\ chunk_duration_ms # 0
    /\ ~RangeDone(start_ms, audio_length, chunk_duration_ms)
    /\ chunks' = Append(chunks,
                        [start |-> start_ms,
                         end |-> ChunkEnd(start_ms, chunk_duration_ms, audio_length)])
    /\ start_ms' = start_ms + chunk_duration_ms
    /\ UNCHANGED <<fn, audio_length, chunk_duration_ms, ppc>>
    /\ UNCHANGED <<tvars, ovars>>

\* the range is exhausted: return chunks
ChunkReturn ==
    /\ ppc = "loop"
    /\ chunk_duration_ms # 0
    /\ RangeDone(start_ms, audio_length, chunk_duration_ms)
    /\ ppc' = "done"
    /\ UNCHANGED <<fn, audio_length, chunk_duration_ms, start_ms, chunks>>
    /\ UNCHANGED <<tvars, ovars>>

NextPartition == ChunkRaise \/ ChunkStep \/ ChunkReturn

SpecPartition == InitPartition /\ [][NextPartition]_vars

-----------------------------------------------------------------------------
(* The Transcriber: what self.client.audio.transcriptions.create can do *)

Seg(s, e, t) == [start |-> s, end |-> e, text |-> t]

\* The API's answers.  A response is an object with some of the attributes
\* text, language, duration, segments (the code asks hasattr for each); a
\* plain-string response has none of them and only its str().
Responses ==
    { [text |-> ""],                                       \* json format, silence
      [text |-> "a"],                                      \* json format
      [repr |-> "b"],                                      \* text format: a plain str
      [text |-> "a", language |-> Some("en"), duration |-> Some(300),
       segments |-> <<Seg(0, 10, "a")>>],                  \* verbose_json
      [text |-> "b", language |-> Some("fr"), duration |-> Some(300),
       segments |-> <<Seg(0, 10, "b")>>],
      [text |-> "a", language |-> Some("en"), duration |-> Some(120),
       segments |-> <<Seg(0, 10, "a")>>],
      [text |-> "", language |-> Some("en"), duration |-> Some(300),
       segments |-> <<>>],                                 \* verbose_json, silence
      [text |-> "a", language |-> Some("en"),
       segments |-> <<Seg(0, 10, "a")>>],                  \* segments, no duration
      [text |-> "b", language |-> Some("fr"), duration |-> Some(0),
       segments |-> <<Seg(0, 0, "b")>>],                   \* a zero duration
      [text |-> "a b", language |-> Some("en"), duration |-> Some(300),
       segments |-> <<Seg(0, 10, "a"), Seg(10, 20, "b")>>],
      [text |-> "a b", language |-> Some("en"),
       segments |-> <<Seg(0, 10, "a"), Seg(10, 20, "b")>>] } \* two segments, no duration

\* The messages of the exceptions open() or the API call can raise
ErrorMessages == {"timeout", "no such file"}

\* What one call of transcribe_audio can meet
Outcomes ==
    [raised : {TRUE}, message : ErrorMessages] \cup [raised : {FALSE}, response : Responses]

\* language or 'unknown'
LanguageOrUnknown(hint) ==
    IF hint # None /\ TruthyStr(Val(hint)) THEN hint ELSE Some("unknown")

\* transcribe_audio: the dict it returns when the call met `outcome`
transcribe_audio(audio_file_path, hint, outcome) ==
    IF outcome.raised
    THEN [success |-> FALSE,
          error |-> "Error: " \o outcome.message,
          file_path |-> audio_file_path]
    ELSE LET response == outcome.response IN
         [success |-> TRUE,
          text |-> IF "text" \in DOMAIN response THEN response.text ELSE response.repr,
          language |-> IF "language" \in DOMAIN response
                       THEN response.language ELSE LanguageOrUnknown(hint),
          duration |-> IF "duration" \in DOMAIN response THEN response.duration ELSE None,
          segments |-> IF "segments" \in DOMAIN response THEN response.segments ELSE <<>>,
          file_path |-> audio_file_path]

\* result['chunk_index'] = i
WithIndexOneBased(result, index) == result @@ [chunk_index |-> index + 1]
WithIndex(result, index) == result @@ [chunk_index |-> index]

-----------------------------------------------------------------------------
(* reassemble_transcription *)

IsSuccess(r) == Get(r, "success", FALSE)
IsFailure(r) == ~Get(r, "success", FALSE)

\* ' '.join(texts)
RECURSIVE JoinSpace(_)
JoinSpace(texts) ==
    IF texts = <<>> THEN ""
    ELSE IF Len(texts) = 1 THEN texts[1]
    ELSE texts[1] \o " " \o JoinSpace(Tail(texts))

HasText(chunk) == TruthyStr(Get(chunk, "text", ""))
TextOf(chunk) == Get(chunk, "text", "")

\* [chunk.get('text', '') for chunk in successful_chunks if chunk.get('text')]
TextsOf(successful) ==
    LET kept == SelectSeq(successful, HasText)
    IN  [k \in 1..Len(kept) |-> TextOf(kept[k])]

\* adjusted_segment = segment.copy(); start and end += time_offset
AdjustSegment(segment, time_offset) ==
    [segment EXCEPT !.start = @ + time_offset, !.end = @ + time_offset]

AdjustSegments(segments, time_offset) ==
    [k \in 1..Len(segments) |-> AdjustSegment(segments[k], time_offset)]

\* if chunk.get('duration'): time_offset += chunk['duration']
AdvanceOffsetAssigns(chunk, time_offset) ==
    IF TruthyNum(Get(chunk, "duration", None))
    THEN Val(chunk.duration)
    ELSE time_offset
AdvanceOffset(chunk, time_offset) ==
    IF TruthyNum(Get(chunk, "duration", None))
    THEN time_offset + Val(chunk.duration)
    ELSE time_offset

\* the body of `for chunk in successful_chunks`; st is (all_segments, time_offset)
MergeChunkPrepends(chunk, st) ==
    LET segments == Get(chunk, "segments", <<>>) IN
    IF segments # <<>>
    THEN [all_segments |-> AdjustSegments(segments, st.time_offset) \o st.all_segments,
          time_offset |-> AdvanceOffset(chunk, st.time_offset)]
    ELSE st
MergeChunk(chunk, st) ==
    LET segments == Get(chunk, "segments", <<>>) IN
    IF segments # <<>>
    THEN [all_segments |-> st.all_segments \o AdjustSegments(segments, st.time_offset),
          time_offset |-> AdvanceOffset(chunk, st.time_offset)]
    ELSE st

\* the loop over successful_chunks, from all_segments = [], time_offset = 0
RECURSIVE MergeLoop(_, _)
MergeLoop(successful, st) ==
    IF successful = <<>> THEN st
    ELSE MergeLoop(Tail(successful), MergeChunk(Head(successful), st))

\* [{'index': r.get('chunk_index', 'unknown'), 'error': r.get('error', ...)} ...]
ChunkErrors(failed) ==
    [k \in 1..Len(failed) |->
        [index |-> Get(failed[k], "chunk_index", "unknown"),
         error |-> Get(failed[k], "error", "unknown error")]]

\* if not successful_chunks
AllFailedIfAnyFailed(successful, failed) == failed # <<>>
AllFailed(successful, failed) == successful = <<>>

\* the counters total_chunks, successful_chunks, failed_chunks
ResultCountsOfSuccesses(chunk_results, successful, failed) ==
    [total_chunks |-> Len(successful),
     successful_chunks |-> Len(successful),
     failed_chunks |-> Len(failed)]
ResultCounts(chunk_results, successful, failed) ==
    [total_chunks |-> Len(chunk_results),
     successful_chunks |-> Len(successful),
     failed_chunks |-> Len(failed)]

reassemble_transcription(chunk_results) ==
    LET successful_chunks == SelectSeq(chunk_results, IsSuccess)
        failed_chunks == SelectSeq(chunk_results, IsFailure)
    IN
    IF AllFailed(successful_chunks, failed_chunks)
    THEN [success |-> FALSE,
          error |-> "All chunks failed to transcribe",
          failed_chunks |-> Len(failed_chunks),
          chunk_errors |-> ChunkErrors(failed_chunks)]
    ELSE LET merged == MergeLoop(successful_chunks,
                                 [all_segments |-> <<>>, time_offset |-> 0])
             counts == ResultCounts(chunk_results, successful_chunks, failed_chunks)
         IN
         [success |-> TRUE,
          text |-> JoinSpace(TextsOf(successful_chunks)),
          segments |-> merged.all_segments,
          total_chunks |-> counts.total_chunks,
          successful_chunks |-> counts.successful_chunks,
          failed_chunks |-> counts.failed_chunks,
          language |-> Get(successful_chunks[1], "language", None),
          total_duration |-> IF merged.time_offset > 0
                             THEN Some(merged.time_offset) ELSE None]

-----------------------------------------------------------------------------
(* transcribe_file and the Runner, transcribe_chunks_sequential *)

\* a progress fraction num/den (Python computes i / total_chunks as a float)
Frac(num, den) == <<num, den>>

\* if progress_callback: progress_callback(fraction, message)
Notified(log, fraction) == IF observer = "none" THEN log ELSE Append(log, fraction)

\* whether a call of the observer raises: only a faulty observer can
RaiseChoices == IF observer = "faulty" THEN BOOLEAN ELSE {FALSE}

\* Where control is after a call of transcribe_audio met `outcome` and the
\* notification that follows it raised or not: transcribe_audio catches every
\* Exception of the call, so only the observer's exception leaves the caller.
PcAfterCallUncaught(outcome, observer_raised, continue_at) ==
    IF observer_raised \/ outcome.raised THEN "raised" ELSE continue_at
PcAfterCall(outcome, observer_raised, continue_at) ==
    IF observer_raised THEN "raised" ELSE continue_at

\* What the call for the chunk at 1-based `position` can meet: anything the
\* Transcriber can do, and in a second invocation what it did the first time
\* (the two invocations are given the same Transcriber responses).
OutcomesAt(position) == IF invocation = 2 THEN {given[position]} ELSE Outcomes

\* chunk_results = []: the Runner's list is a local, made anew by each call
NewChunkResultsKept(previous) == previous
NewChunkResults(previous) == <<>>

\* the chunk lists handed to transcribe_file: n distinct artifact paths
ChunkPathLists == {[k \in 1..n |-> k] : n \in 0..MaxChunks}

Init ==
    /\ entry \in {"transcribe_file", "transcribe_chunks_sequential"}
    /\ chunk_paths \in ChunkPathLists
    /\ language \in {None, Some("fr")}
    /\ observer \in {"none", "ok", "faulty"}
    /\ pc = IF entry = "transcribe_file" THEN "entry" ELSE "runner"
    /\ i = 0
    /\ results = <<>>
    /\ calls = <<>>
    /\ outcomes = <<>>
    /\ progress = <<>>
    /\ ret = <<>>
    /\ first_ret = <<>>
    /\ given = <<>>
    /\ PartitionIdle
    /\ OthersIdle

\* if not chunk_paths: return the failure dict
TranscribeFileEmptyNotifies ==
    /\ pc = "entry"
    /\ chunk_paths = <<>>
    /\ progress' = Notified(progress, Frac(10, 10))
    /\ ret' = [success |-> FALSE, error |-> "No audio chunks provided"]
    /\ pc' = "returned"
    /\ UNCHANGED <<entry, chunk_paths, language, observer, i, results, calls, outcomes>>
    /\ UNCHANGED <<pvars, rvars, ovars>>
TranscribeFileEmpty ==
    /\ pc = "entry"
    /\ chunk_paths = <<>>
    /\ ret' = [success |-> FALSE, error |-> "No audio chunks provided"]
    /\ pc' = "returned"
    /\ UNCHANGED <<entry, chunk_paths, language, observer, i, results, calls, outcomes,
                   progress>>
    /\ UNCHANGED <<pvars, rvars, ovars>>

\* result = self.transcribe_audio(chunk_paths[0], language): the single-chunk
\* path hands back the Transcriber's dict as it is
SingleResultReassembled(audio_file_path, hint, outcome) ==
    reassemble_transcription(<<WithIndex(transcribe_audio(audio_file_path, hint, outcome), 0)>>)
SingleResult(audio_file_path, hint, outcome) ==
    transcribe_audio(audio_file_path, hint, outcome)

\* len(chunk_paths) == 1: notify 0.5, transcribe_audio, notify 1.0, return result
TranscribeFileSingle ==
    /\ pc = "entry"
    /\ Len(chunk_paths) = 1
    /\ \E raise1 \in RaiseChoices :
         IF raise1
         THEN /\ progress' = Notified(progress, Frac(5, 10))
              /\ pc' = "raised"
              /\ UNCHANGED <<calls, outcomes, ret>>
         ELSE \E outcome \in OutcomesAt(1), raise2 \in RaiseChoices :
              /\ calls' = Append(calls, 0)
              /\ outcomes' = Append(outcomes, outcome)
              /\ progress' = Notified(Notified(progress, Frac(5, 10)), Frac(10, 10))
              /\ pc' = PcAfterCall(outcome, raise2, "returned")
              /\ ret' = IF pc' = "returned"
                        THEN SingleResult(chunk_paths[1], language, outcome)
                        ELSE ret
    /\ UNCHANGED <<entry, chunk_paths, language, observer, i, results>>
    /\ UNCHANGED <<pvars, rvars, ovars>>

\* several chunks: notify 0.1 and enter transcribe_chunks_sequential
TranscribeFileStart ==
    /\ pc = "entry"
    /\ Len(chunk_paths) > 1
    /\ progress' = Notified(progress, Frac(1, 10))
    /\ \E raise \in RaiseChoices :
         IF raise
         THEN pc' = "raised" /\ UNCHANGED <<i, results>>
         ELSE pc' = "runner" /\ i' = 0 /\ results' = NewChunkResults(results)
    /\ UNCHANGED <<entry, chunk_paths, language, observer, calls, outcomes, ret>>
    /\ UNCHANGED <<pvars, rvars, ovars>>

\* the result the Runner appends for the chunk at 0-based position `index`
RunnerResult(index, outcome) ==
    WithIndex(transcribe_audio(chunk_paths[index + 1], language, outcome), index)

\* for i, chunk_path in enumerate(chunk_paths): the index after chunk `index`,
\* whatever its call met
NextIndexRetriesFailure(index, outcome) == IF outcome.raised THEN index ELSE index + 1
NextIndex(index, outcome) == index + 1

\* the fraction notified after chunk `index`: (i + 1) / total_chunks
FractionAfterStale(index, total_chunks) == Frac(index, total_chunks)
FractionAfter(index, total_chunks) == Frac(index + 1, total_chunks)

\* one iteration of the Runner's loop: notify i/N, transcribe chunk i, stamp
\* chunk_index, append, notify (i+1)/N
RunnerStep ==
    /\ pc = "runner"
    /\ i < Len(chunk_paths)
    /\ LET total_chunks == Len(chunk_paths) IN
       \E raise1 \in RaiseChoices :
         IF raise1
         THEN /\ progress' = Notified(progress, Frac(i, total_chunks))
              /\ pc' = "raised"
              /\ UNCHANGED <<i, results, calls, outcomes>>
         ELSE \E outcome \in OutcomesAt(i + 1), raise2 \in RaiseChoices :
              /\ calls' = Append(calls, i)
              /\ outcomes' = Append(outcomes, outcome)
              /\ results' = Append(results, RunnerResult(i, outcome))
              /\ progress' = Notified(Notified(progress, Frac(i, total_chunks)),
                                      FractionAfter(i, total_chunks))
              /\ pc' = PcAfterCall(outcome, raise2, "runner")
              /\ i' = IF pc' = "runner" THEN NextIndex(i, outcome) ELSE i
    /\ UNCHANGED <<entry, chunk_paths, language, observer, ret>>
    /\ UNCHANGED <<pvars, rvars, ovars>>

\* a direct call of the Runner ends: return results
RunnerReturn ==
    /\ entry = "transcribe_chunks_sequential"
    /\ pc = "runner"
    /\ i = Len(chunk_paths)
    /\ pc' = "runner_returned"
    /\ UNCHANGED <<entry, chunk_paths, language, observer, i, results, calls, outcomes,
                   progress, ret>>
    /\ UNCHANGED <<pvars, rvars, ovars>>

\* the Runner returns to transcribe_file: notify 0.9, reassemble_transcription, notify 1.0, return
TranscribeFileFinish ==
    /\ entry = "transcribe_file"
    /\ pc = "runner"
    /\ i = Len(chunk_paths)
    /\ \E raise1 \in RaiseChoices :
         IF raise1
         THEN /\ progress' = Notified(progress, Frac(9, 10))
              /\ pc' = "raised"
              /\ ret' = ret
         ELSE \E raise2 \in RaiseChoices :
              /\ progress' = Notified(Notified(progress, Frac(9, 10)), Frac(10, 10))
              /\ IF raise2
                 THEN pc' = "raised" /\ ret' = ret
                 ELSE pc' = "returned" /\ ret' = reassemble_transcription(results)
    /\ UNCHANGED <<entry, chunk_paths, language, observer, i, results, calls, outcomes>>
    /\ UNCHANGED <<pvars, rvars, ovars>>

Next ==
    \/ TranscribeFileEmpty
    \/ TranscribeFileSingle
    \/ TranscribeFileStart
    \/ RunnerStep
    \/ RunnerReturn
    \/ TranscribeFileFinish

Spec == Init /\ [][Next]_vars

-----------------------------------------------------------------------------
(* Two transcribe_file calls in a row on one service: SpecTwice *)

\* the services TranscriptionService(model, prompt_context) constructs
Services ==
    { DefaultService, [model |-> "whisper-1", prompt_context |-> Some("podcast")] }

InitTwice ==
    /\ entry = "transcribe_file"
    /\ chunk_paths \in ChunkPathLists
    /\ language \in {None, Some("fr")}
    /\ observer \in {"none", "ok"}
    /\ pc = "entry"
    /\ i = 0
    /\ results = <<>>
    /\ calls = <<>>
    /\ outcomes = <<>>
    /\ progress = <<>>
    /\ ret = <<>>
    /\ first_ret = <<>>
    /\ given = <<>>
    /\ service \in Services
    /\ invocation = 1
    /\ PartitionIdle
    /\ BatchIdle
    /\ TranslateIdle

\* The first call has returned and the caller calls transcribe_file again with
\* the same arguments: what the first call returned and met is kept for
\* comparison, and the logs of calls and notifications start afresh.
CallAgain ==
    /\ entry = "transcribe_file"
    /\ pc = "returned"
    /\ invocation = 1
    /\ invocation' = 2
    /\ first_ret' = ret
    /\ given' = outcomes
    /\ pc' = "entry"
    /\ calls' = <<>>
    /\ outcomes' = <<>>
    /\ progress' = <<>>
    /\ UNCHANGED <<entry, chunk_paths, language, observer, i, results, ret, service>>
    /\ UNCHANGED <<pvars, bvars, lvars>>

NextTwice ==
    \/ TranscribeFileEmpty
    \/ TranscribeFileSingle
    \/ TranscribeFileStart
    \/ RunnerStep
    \/ TranscribeFileFinish
    \/ CallAgain

SpecTwice == InitTwice /\ [][NextTwice]_vars

-----------------------------------------------------------------------------
(* Direct calls of reassemble_transcription: SpecReassemble *)

\* A chunk result as a caller of reassemble_transcription can hand it in:
\* what the Runner stamps for the chunk at `index`, or a success that carries
\* no language (chunk.get('language') is then None).
ChunkResultsAt(index) ==
    {WithIndex(transcribe_audio(index + 1, None, outcome), index) : outcome \in Outcomes}
    \cup {[success |-> TRUE, text |-> "c", language |-> None, duration |-> Some(300),
           segments |-> <<Seg(0, 10, "c")>>, file_path |-> index + 1,
           chunk_index |-> index]}

\* the lists of n chunk results whose chunk_index values are 0 .. n-1 in any order
ChunkResultLists ==
    UNION {
        {l \in [1..n -> UNION {ChunkResultsAt(index) : index \in 0..(n - 1)}] :
            \A j, k \in 1..n : j # k => l[j].chunk_index # l[k].chunk_index}
        : n \in 0..MaxShuffled }

\* A segment dict of the input after lines 161-163: the additions are made to
\* adjusted_segment, which segment.copy() made a different dict.
SegmentAfterAdjustAliased(segment, time_offset) == AdjustSegment(segment, time_offset)
SegmentAfterAdjust(segment, time_offset) == segment

\* the input list after the loop over its successful chunks has run
RECURSIVE InputAfterLoop(_, _)
InputAfterLoop(chunk_results, time_offset) ==
    IF chunk_results = <<>> THEN <<>>
    ELSE LET chunk == Head(chunk_results)
             segments == Get(chunk, "segments", <<>>)
         IN  IF IsSuccess(chunk) /\ segments # <<>>
             THEN <<[chunk EXCEPT !.segments =
                        [m \in 1..Len(segments) |->
                            SegmentAfterAdjust(segments[m], time_offset)]]>>
                  \o InputAfterLoop(Tail(chunk_results), AdvanceOffset(chunk, time_offset))
             ELSE <<chunk>> \o InputAfterLoop(Tail(chunk_results), time_offset)

InitReassemble ==
    /\ entry = "reassemble_transcription"
    /\ chunk_paths = <<>>
    /\ language = None
    /\ observer = "none"
    /\ pc = "reassemble"
    /\ i = 0
    /\ results \in ChunkResultLists
    /\ calls = <<>>
    /\ outcomes = <<>>
    /\ progress = <<>>
    /\ ret = <<>>
    /\ first_ret = <<>>
    /\ given = results
    /\ PartitionIdle
    /\ OthersIdle

\* reassemble_transcription(results), the first call
ReassembleFirst ==
    /\ pc = "reassemble"
    /\ ret' = reassemble_transcription(results)
    /\ first_ret' = ret'
    /\ results' = InputAfterLoop(results, 0)
    /\ pc' = "reassembled"
    /\ UNCHANGED <<entry, chunk_paths, language, observer, i, calls, outcomes, progress, given>>
    /\ UNCHANGED <<pvars, ovars>>

\* reassemble_transcription(results) again, on the same list object
ReassembleAgain ==
    /\ pc = "reassembled"
    /\ ret' = reassemble_transcription(results)
    /\ results' = InputAfterLoop(results, 0)
    /\ pc' = "reassembled_twice"
    /\ UNCHANGED <<entry, chunk_paths, language, observer, i, calls, outcomes, progress,
                   first_ret, given>>
    /\ UNCHANGED <<pvars, ovars>>

NextReassemble ==
    \/ ReassembleFirst
    \/ ReassembleAgain

SpecReassemble == InitReassemble /\ [][NextReassemble]_vars

-----------------------------------------------------------------------------
(* audio_processing.py: AudioProcessor.process_file, save_chunks and         *)
(* process_batch_files: SpecBatch                                           *)

\* MAX_CHUNK_SIZE = 25 * 1024 * 1024
MAX_CHUNK_SIZE == 26214400

\* tempfile.mkdtemp(): the directory of one AudioProcessor
TempDirPath == "/tmp/tmpdir"

\* os.path.join(self.temp_dir, filename)
PathJoin(directory, filename) == directory \o "/" \o filename

\* An uploaded file's name, kept as os.path.splitext splits it: name = base + ext
FileNames ==
    { [base |-> "a", ext |-> ".mp3"],
      [base |-> "a", ext |-> ".MP3"],
      [base |-> "a_chunk_1", ext |-> ".mp3"],
      [base |-> "a", ext |-> ".txt"] }

NameOf(name) == name.base \o name.ext

\* str.lower() on the extensions that occur
Lower(ext) == IF ext = ".MP3" THEN ".mp3" ELSE ext

\* What an uploaded file holds: no bytes at all, bytes no decoder accepts, or
\* audio of audio_length ms whose decoded samples take bytes_per_ms bytes each
\* ms (176 for 44.1 kHz 16-bit stereo, 8 for 8 kHz 8-bit mono).
FileContents ==
    { [kind |-> "empty"],
      [kind |-> "corrupt"],
      [kind |-> "audio", audio_length |-> 0, bytes_per_ms |-> 176],
      [kind |-> "audio", audio_length |-> 60000, bytes_per_ms |-> 176],
      [kind |-> "audio", audio_length |-> FixedChunkMs + 1, bytes_per_ms |-> 176],
      [kind |-> "audio", audio_length |-> 3 * FixedChunkMs, bytes_per_ms |-> 8] }

UploadedFiles == [name : FileNames, content : FileContents]

\* validate_audio_file: (is_valid, message)
validate_audio_file(file) ==
    IF Lower(file.name.ext) # ".mp3" THEN <<FALSE, "Only MP3 files are accepted">>
    ELSE IF file.content.kind = "empty" THEN <<FALSE, "File is empty">>
    ELSE <<TRUE, "File is valid">>

\* get_audio_info: the two entries the batch uses
get_audio_info(audio) ==
    [duration_ms |-> audio.audio_length,
     size_bytes |-> audio.audio_length * audio.bytes_per_ms]

\* chunk_audio_by_size as a function: the spans of range(0, audio_length, 600000)
RECURSIVE RangeSpans(_, _, _)
RangeSpans(start, length, bound) ==
    IF RangeDone(start, length, bound) THEN <<>>
    ELSE <<[start |-> start, end |-> ChunkEnd(start, bound, length)]>>
         \o RangeSpans(start + bound, length, bound)

chunk_audio_by_size(length) == RangeSpans(0, length, FixedChunkMs)

\* the chunks process_file hands to save_chunks
ChunksToSaveAlwaysSplit(audio) == chunk_audio_by_size(audio.audio_length)
ChunksToSave(audio) ==
    IF get_audio_info(audio).size_bytes > MAX_CHUNK_SIZE
    THEN chunk_audio_by_size(audio.audio_length)
    ELSE <<[start |-> 0, end |-> audio.audio_length]>>

\* str(i + 1) for the chunk numbers that occur
DecimalDigits == <<"1", "2", "3", "4", "5", "6", "7", "8", "9">>

\* f"{base_name}_chunk_{i+1}.mp3" joined to temp_dir, for the 0-based index
ChunkPath(base_name, index) ==
    PathJoin(TempDirPath, base_name \o "_chunk_" \o DecimalDigits[index + 1] \o ".mp3")

\* The number of chunks save_chunks gets through when chunk.export raises at
\* the chunk numbered fail_at (1-based; 0: no export raises): the exception
\* leaves the loop.
ExportedCount(n_chunks, fail_at) == IF fail_at = 0 THEN n_chunks ELSE fail_at - 1

\* save_chunks: the paths it has exported, and whether it raised
save_chunks(chunk_list, base_filename, fail_at) ==
    [raised |-> fail_at # 0,
     chunk_paths |-> [k \in 1..ExportedCount(Len(chunk_list), fail_at) |->
                         ChunkPath(base_filename.base, k - 1)]]

\* process_file on `file`, whose save_chunks call has an export raise at
\* fail_at: whether it raised and with what message, the files it wrote into
\* temp_dir, and what it returned
process_file(file, fail_at) ==
    LET validity == validate_audio_file(file)
        copy == <<[path |-> PathJoin(TempDirPath, NameOf(file.name)), kind |-> "copy"]>>
    IN
    IF ~validity[1]
    THEN [raised |-> TRUE, error |-> validity[2], written |-> <<>>, saved |-> None]
    ELSE IF file.content.kind = "corrupt"
    THEN [raised |-> TRUE, error |-> "decoding failed", written |-> copy, saved |-> None]
    ELSE LET audio == file.content
             chunk_list == ChunksToSave(audio)
             saved == save_chunks(chunk_list, file.name, fail_at)
             exported == [k \in 1..Len(saved.chunk_paths) |->
                             [path |-> saved.chunk_paths[k], kind |-> "chunk"]]
         IN  [raised |-> saved.raised,
              error |-> IF saved.raised THEN "encoding failed" ELSE "",
              written |-> copy \o exported,
              saved |-> Some([n_chunks |-> Len(chunk_list), fail_at |-> fail_at,
                              chunk_paths |-> saved.chunk_paths]),
              audio |-> audio,
              chunk_paths |-> saved.chunk_paths,
              audio_info |-> get_audio_info(audio)]

\* the chunk numbers at which an export can raise for `file` (0: none does)
FailChoices(file) ==
    IF validate_audio_file(file)[1] /\ file.content.kind = "audio"
    THEN 0..Len(ChunksToSave(file.content))
    ELSE {0}

\* the index of the next iteration: the except clause swallows the exception
\* of a file, so the loop goes on with the next file
NextFileIndexStopsOnFailure(index, raised) == IF raised THEN Len(files) ELSE index + 1
NextFileIndex(index, raised) == index + 1

FileLists == UNION {[1..n -> UploadedFiles] : n \in 0..MaxFiles}

InitBatch ==
    /\ files \in FileLists
    /\ file_index = 0
    /\ processed = <<>>
    /\ failed_files = <<>>
    /\ total_duration = 0
    /\ temp_dir = "none"
    /\ writes = <<>>
    /\ exports = <<>>
    /\ bpc = "start"
    /\ PartitionIdle
    /\ TranscribeIdle
    /\ ServiceIdle
    /\ TranslateIdle

\* processor = AudioProcessor(): mkdtemp; results = {...}
BatchStart ==
    /\ bpc = "start"
    /\ temp_dir' = "allocated"
    /\ bpc' = "loop"
    /\ UNCHANGED <<files, file_index, processed, failed_files, total_duration, writes, exports>>
    /\ UNCHANGED <<pvars, tvars, svars, lvars>>

\* One iteration of `for i, file in enumerate(files)`: process_file inside
\* try/except Exception; the file is appended to 'processed' or to 'failed'.
BatchStep ==
    /\ bpc = "loop"
    /\ file_index < Len(files)
    /\ LET file == files[file_index + 1] IN
       \E fail_at \in FailChoices(file) :
         LET done == process_file(file, fail_at)
             stamped == [k \in 1..Len(done.written) |->
                            done.written[k] @@ [file_index |-> file_index]]
         IN
         /\ writes' = writes \o stamped
         /\ file_index' = NextFileIndex(file_index, done.raised)
         /\ exports' = IF done.saved = None THEN exports
                        ELSE Append(exports, Val(done.saved) @@
                                 [file_index |-> file_index, base_name |-> file.name.base])
         /\ IF done.raised
            THEN /\ failed_files' = Append(failed_files,
                        [filename |-> NameOf(file.name), error |-> done.error,
                         file_index |-> file_index])
                 /\ UNCHANGED <<processed, total_duration>>
            ELSE /\ processed' = Append(processed,
                        [filename |-> NameOf(file.name), audio |-> done.audio,
                         chunk_paths |-> done.chunk_paths, info |-> done.audio_info,
                         file_index |-> file_index])
                 /\ total_duration' = total_duration + done.audio_info.duration_ms
                 /\ UNCHANGED failed_files
    /\ UNCHANGED <<files, temp_dir, bpc>>
    /\ UNCHANGED <<pvars, tvars, svars, lvars>>

\* return results
BatchReturn ==
    /\ bpc = "loop"
    /\ file_index = Len(files)
    /\ bpc' = "returned"
    /\ UNCHANGED <<files, file_index, processed, failed_files, total_duration, temp_dir,
                   writes, exports>>
    /\ UNCHANGED <<pvars, tvars, svars, lvars>>

NextBatch ==
    \/ BatchStart
    \/ BatchStep
    \/ BatchReturn

SpecBatch == InitBatch /\ [][NextBatch]_vars

(* An AudioProcessor used directly: p = AudioProcessor(), then calls of     *)
(* p.process_file and p.cleanup() in any order.  Nothing in the repository  *)
(* calls cleanup(): process_batch_files keeps its processor in a local and  *)
(* returns without it, so cleanup is an action of this specification only.  *)

\* the paths present in the temp directory: every file written since mkdtemp,
\* none once rmtree has removed the directory (no write succeeds after that)
TempDirFiles ==
    IF temp_dir = "allocated" THEN {writes[k].path : k \in 1..Len(writes)} ELSE {}

\* p = AudioProcessor(): mkdtemp; the caller holds the files it will pass
InitProcessor ==
    /\ files \in FileLists
    /\ file_index = 0
    /\ processed = <<>>
    /\ failed_files = <<>>
    /\ total_duration = 0
    /\ temp_dir = "allocated"
    /\ writes = <<>>
    /\ exports = <<>>
    /\ bpc = "processor"
    /\ PartitionIdle
    /\ TranscribeIdle
    /\ ServiceIdle
    /\ TranslateIdle

\* process_file on a processor whose directory is in state `dir`: once the
\* directory is removed, open(temp_path, 'wb') in load_audio raises for a
\* file that passed validation, and nothing is written
process_file_in(dir, file, fail_at) ==
    IF dir = "allocated" \/ ~validate_audio_file(file)[1]
    THEN process_file(file, fail_at)
    ELSE [raised |-> TRUE, error |-> "No such file or directory", written |-> <<>>,
          saved |-> None]

\* p.process_file(file) called by the owner of the processor: the returned
\* tuple is logged in 'processed', a raised exception in 'failed_files'
ProcessFileCall ==
    /\ bpc = "processor"
    /\ file_index < Len(files)
    /\ LET file == files[file_index + 1] IN
       \E fail_at \in FailChoices(file) :
         LET done == process_file_in(temp_dir, file, fail_at)
             stamped == [k \in 1..Len(done.written) |->
                            done.written[k] @@ [file_index |-> file_index]]
         IN
         /\ writes' = writes \o stamped
         /\ file_index' = file_index + 1
         /\ exports' = IF done.saved = None THEN exports
                        ELSE Append(exports, Val(done.saved) @@
                                 [file_index |-> file_index, base_name |-> file.name.base])
         /\ IF done.raised
            THEN /\ failed_files' = Append(failed_files,
                        [filename |-> NameOf(file.name), error |-> done.error,
                         file_index |-> file_index])
                 /\ UNCHANGED processed
            ELSE /\ processed' = Append(processed,
                        [filename |-> NameOf(file.name), audio |-> done.audio,
                         chunk_paths |-> done.chunk_paths, info |-> done.audio_info,
                         file_index |-> file_index])
                 /\ UNCHANGED failed_files
    /\ UNCHANGED <<files, total_duration, temp_dir, bpc>>
    /\ UNCHANGED <<pvars, tvars, svars, lvars>>

\* the state of the directory after cleanup(): rmtree when the path exists,
\* nothing otherwise; self.temp_dir keeps the path
DirAfterCleanup(dir) == IF dir = "allocated" THEN "released" ELSE dir

\* p.cleanup()
cleanup ==
    /\ bpc = "processor"
    /\ temp_dir' = DirAfterCleanup(temp_dir)
    /\ UNCHANGED <<files, file_index, processed, failed_files, total_duration, writes,
                   exports, bpc>>
    /\ UNCHANGED <<pvars, tvars, svars, lvars>>

NextProcessor ==
    \/ ProcessFileCall
    \/ cleanup

SpecProcessor == InitProcessor /\ [][NextProcessor]_vars

\* cleanup() leaves no directory and no file, whatever was written before,
\* and changes nothing when the directory is already gone
CleanupRemovesDirectory ==
    [][cleanup => /\ temp_dir' = "released"
                  /\ TempDirFiles' = {}
                  /\ (temp_dir = "released" => UNCHANGED vars)]_vars

\* a processor whose directory is gone processes no file
NoReturnAfterCleanup ==
    [][ProcessFileCall /\ temp_dir = "released" =>
          Len(failed_files') = Len(failed_files) + 1 /\ UNCHANGED writes]_vars

\* a cleanup that removed files, then a second cleanup and a rejected call
CleanupWitness ==
    /\ bpc = "processor"
    /\ temp_dir = "released"
    /\ Len(writes) >= 2
    /\ Len(failed_files) >= 1
    /\ failed_files[Len(failed_files)].error = "No such file or directory"

-----------------------------------------------------------------------------
(* translation.py: TranslationService.translate_parallel: SpecTranslate     *)

\* the language codes handed in, in the order Python's str comparison puts
\* them ("es" < "fr" < "xx"); "xx" is not a key of LANGUAGES
LanguageCodes == <<"es", "fr", "xx">>

\* the position of a code in that order: what the sort key compares
KeyRank(code) == CHOOSE r \in 1..Len(LanguageCodes) : LanguageCodes[r] = code

\* self.LANGUAGES.get(target_language, target_language)
LanguageName(code) ==
    IF code = "es" THEN "Spanish" ELSE IF code = "fr" THEN "French" ELSE code

\* What one submitted translate_content call can meet: the API answers, the
\* API call raises (caught inside translate_content), or the code before its
\* try raises, which the future hands on to future.result().
WorkerOutcomes ==
    { [kind |-> "translated", text |-> "hola"],
      [kind |-> "api_error", message |-> "overloaded"],
      [kind |-> "raised", message |-> "sequence item 0: expected str instance"] }

\* the dict translate_parallel appends for a task of language `lang`
translate_result(lang, outcome) ==
    IF outcome.kind = "translated"
    THEN [success |-> TRUE,
          original |-> "hello",
          translated |-> outcome.text,
          source_language |-> "en",
          target_language |-> lang,
          target_language_name |-> LanguageName(lang),
          preserved_keywords |-> <<>>]
    ELSE [success |-> FALSE,
          error |-> outcome.message,
          target_language |-> lang]

\* list.sort(key=...) is stable: x goes behind the elements whose key is not
\* larger than its own
InsertStable(sorted, x) ==
    LET before == Cardinality({k \in 1..Len(sorted) :
                      KeyRank(sorted[k].target_language) <= KeyRank(x.target_language)})
    IN  SubSeq(sorted, 1, before) \o <<x>> \o SubSeq(sorted, before + 1, Len(sorted))

\* results.sort(key=lambda x: x.get('target_language', ''))
RECURSIVE SortByLanguageStable(_)
SortByLanguageStable(list) ==
    IF list = <<>> THEN <<>>
    ELSE InsertStable(SortByLanguageStable(SubSeq(list, 1, Len(list) - 1)), list[Len(list)])

SortByLanguageMissing(list) == list
SortByLanguage(list) == SortByLanguageStable(list)

LanguageLists ==
    UNION {[1..n -> {LanguageCodes[r] : r \in 1..Len(LanguageCodes)}] : n \in 0..MaxLanguages}

\* the state once every translate_content call has been submitted
InitTranslate ==
    /\ target_languages \in LanguageLists
    /\ worker_outcomes \in [1..Len(target_languages) -> WorkerOutcomes]
    /\ pending = 1..Len(target_languages)
    /\ translations = <<>>
    /\ lpc = "collect"
    /\ PartitionIdle
    /\ TranscribeIdle
    /\ ServiceIdle
    /\ BatchIdle

\* as_completed yields the future of task k: its result, or the failure dict
\* built from its exception, is appended.  max_workers limits how many calls
\* run at a time, not the order in which finished futures are yielded: any
\* pending task can be the next one.
Collect(k) ==
    /\ lpc = "collect"
    /\ k \in pending
    /\ translations' = Append(translations,
                              translate_result(target_languages[k], worker_outcomes[k]))
    /\ pending' = pending \ {k}
    /\ UNCHANGED <<target_languages, worker_outcomes, lpc>>
    /\ UNCHANGED <<pvars, tvars, svars, bvars>>

\* every future has been yielded: sort and return
SortAndReturn ==
    /\ lpc = "collect"
    /\ pending = {}
    /\ translations' = SortByLanguage(translations)
    /\ lpc' = "returned"
    /\ UNCHANGED <<target_languages, worker_outcomes, pending>>
    /\ UNCHANGED <<pvars, tvars, svars, bvars>>

NextTranslate ==
    \/ \E k \in 1..MaxLanguages : Collect(k)
    \/ SortAndReturn

SpecTranslate == InitTranslate /\ [][NextTranslate]_vars

-----------------------------------------------------------------------------
(* Properties of the partitioner, checked under SpecPartition *)

\* ceil(d / b) for b > 0
Ceil(d, b) == (d + b - 1) \div b

RECURSIVE SumSpans(_)
SumSpans(spans) ==
    IF spans = <<>> THEN 0
    ELSE (Head(spans).end - Head(spans).start) + SumSpans(Tail(spans))

PartitionReturned == ppc = "done" /\ chunk_duration_ms > 0

\* C1: for a duration D > 0 and a bound B > 0 the spans returned by chunk_audio
\* and by chunk_audio_by_size (B = 600000) come in strictly increasing order,
\* each is at most B long, consecutive spans are contiguous, the first starts
\* at 0 and the last ends at D, and their durations sum to D.
C1_SpansCoverAudio ==
    (PartitionReturned /\ audio_length > 0) =>
        /\ chunks # <<>>
        /\ chunks[1].start = 0
        /\ chunks[Len(chunks)].end = audio_length
        /\ \A k \in 1..Len(chunks) :
              /\ chunks[k].start < chunks[k].end
              /\ chunks[k].end - chunks[k].start <= chunk_duration_ms
        /\ \A k \in 1..(Len(chunks) - 1) :
              /\ chunks[k].end = chunks[k + 1].start
              /\ chunks[k].start < chunks[k + 1].start
        /\ SumSpans(chunks) = audio_length

\* chunk_audio_by_size has split 1450000 ms into 600000 + 600000 + 250000
C1_Witness ==
    /\ ppc = "done"
    /\ fn = "chunk_audio_by_size"
    /\ audio_length = 2 * FixedChunkMs + 250000
    /\ Len(chunks) = 3
    /\ chunks[3] = [start |-> 2 * FixedChunkMs, end |-> audio_length]

\* C2 as stated: the number of chunks is ceil(D/B), or 1 if D = 0, and
\* whenever D <= B exactly one span covers the whole buffer.
C2_AsStated ==
    PartitionReturned =>
        /\ Len(chunks) = (IF audio_length = 0 THEN 1
                          ELSE Ceil(audio_length, chunk_duration_ms))
        /\ (audio_length <= chunk_duration_ms =>
               chunks = <<[start |-> 0, end |-> audio_length]>>)

\* C2, amended: for D >= 0 and B > 0 the number of chunks is ceil(D/B), which
\* is 0 for D = 0 (an empty list, no span); whenever 0 < D <= B exactly one
\* span [0, D) is returned.
C2_ChunkCount ==
    PartitionReturned =>
        /\ Len(chunks) = Ceil(audio_length, chunk_duration_ms)
        /\ (audio_length = 0 => chunks = <<>>)
        /\ ((0 < audio_length /\ audio_length <= chunk_duration_ms) =>
               chunks = <<[start |-> 0, end |-> audio_length]>>)

\* chunk_audio has returned the empty list for a zero-length buffer
C2_Witness ==
    /\ ppc = "done"
    /\ fn = "chunk_audio"
    /\ audio_length = 0
    /\ chunk_duration_ms > 0
    /\ chunks = <<>>

-----------------------------------------------------------------------------
(* Properties of the Runner and of transcribe_file, checked under Spec *)

NumChunks == Len(chunk_paths)

\* the call runs transcribe_chunks_sequential: directly, or from
\* transcribe_file for more than one chunk
UsesRunner == entry = "transcribe_chunks_sequential" \/ (pc # "idle" /\ NumChunks > 1)

\* the loop of transcribe_chunks_sequential has ended: it returns results
RunnerReturned == UsesRunner /\ i = NumChunks

\* transcribe_file has returned on the multi-chunk path: ret is
\* reassemble_transcription(results)
MultiReturned == pc = "returned" /\ NumChunks > 1

\* the failure dict transcribe_audio builds for an exception with `message`
FailureOf(path, message) ==
    [success |-> FALSE, error |-> "Error: " \o message, file_path |-> path]

\* C3: for N chunk paths the Runner returns exactly N results in input order,
\* the result at 0-based position p carrying chunk_index = p whether the chunk
\* succeeded or failed, so the indices are exactly {0, ..., N-1}, each once.
C3_IndexIntegrity ==
    /\ \A k \in 1..Len(results) :
          /\ results[k].chunk_index = k - 1
          /\ results[k].file_path = chunk_paths[k]
          /\ results[k].success = ~outcomes[k].raised
    /\ RunnerReturned =>
          /\ Len(results) = NumChunks
          /\ {results[k].chunk_index : k \in 1..Len(results)} = 0..(NumChunks - 1)

\* the Runner has returned three results, the middle one a failure
C3_Witness ==
    /\ RunnerReturned
    /\ pc = "runner"
    /\ NumChunks = 3
    /\ results[1].success /\ ~results[2].success /\ results[3].success
    /\ results[2].chunk_index = 1

\* C4: a failure while transcribing chunk p is recorded as the failure result
\* of chunk p and never raised out of the Runner or of transcribe_file (the
\* only exception that leaves them is the observer's); whatever the earlier
\* outcomes, each step of the Runner attempts the next chunk, and a call that
\* returns has attempted every chunk.
C4_FailureIsolation ==
    /\ [](/\ (pc = "raised" => observer = "faulty")
          /\ (pc \in {"returned", "runner_returned"} =>
                calls = [k \in 1..NumChunks |-> k - 1])
          /\ Len(outcomes) = Len(calls)
          /\ (UsesRunner => Len(results) = Len(calls))
          /\ \A k \in 1..Len(results) :
                outcomes[k].raised =>
                    results[k] = WithIndex(FailureOf(chunk_paths[k], outcomes[k].message),
                                           k - 1)
          /\ (pc = "returned" /\ NumChunks = 1 /\ outcomes[1].raised =>
                ret = FailureOf(chunk_paths[1], outcomes[1].message)))
    /\ [][(pc = "runner" /\ i < NumChunks /\ observer # "faulty") =>
             /\ pc' = "runner"
             /\ i' = i + 1
             /\ calls' = Append(calls, i)
             /\ Len(results') = Len(results) + 1]_vars

\* chunks 0 and 2 failed, chunk 1 was still transcribed and the call returned
C4_Witness ==
    /\ pc = "returned"
    /\ NumChunks = 3
    /\ calls = <<0, 1, 2>>
    /\ outcomes[1].raised /\ ~outcomes[2].raised /\ outcomes[3].raised
    /\ ~results[1].success /\ results[2].success /\ ~results[3].success

\* C5: for a non-empty chunk list the result of transcribe_file has
\* success = true iff at least one chunk's transcription succeeded, on the
\* single-chunk and on the multi-chunk path.
C5_SuccessIffSomeChunkSucceeded ==
    (pc = "returned" /\ NumChunks >= 1) =>
        (ret.success <=> \E k \in 1..Len(outcomes) : ~outcomes[k].raised)

\* three chunks, only the last one transcribed: the result is a success
C5_Witness ==
    /\ pc = "returned"
    /\ NumChunks = 3
    /\ outcomes[1].raised /\ outcomes[2].raised /\ ~outcomes[3].raised
    /\ ret.success

-----------------------------------------------------------------------------
(* Properties of reassemble_transcription, checked under Spec on the lists the
   Runner hands it *)

Successes(chunk_results) == SelectSeq(chunk_results, IsSuccess)

NumSuccesses == Cardinality({k \in 1..Len(results) : results[k].success})
NumFailures == Cardinality({k \in 1..Len(results) : ~results[k].success})

\* C6: for a list with at least one success the result has success = true,
\* total_chunks = number of results, successful_chunks = number of successes,
\* failed_chunks = number of failures, which add up to total_chunks, also
\* when some chunk failed.
C6_Counts ==
    (MultiReturned /\ NumSuccesses > 0) =>
        /\ ret.success
        /\ ret.total_chunks = Len(results)
        /\ ret.successful_chunks = NumSuccesses
        /\ ret.failed_chunks = NumFailures
        /\ ret.successful_chunks + ret.failed_chunks = ret.total_chunks

\* a partial success: one chunk of three transcribed
C6_Witness ==
    /\ MultiReturned
    /\ Len(results) = 3
    /\ NumSuccesses = 1
    /\ ret.success
    /\ ret.failed_chunks = 2

\* the chunk_errors entries the failures of `results` call for
ExpectedErrors ==
    [k \in 1..Len(results) |->
        [index |-> k - 1, error |-> "Error: " \o outcomes[k].message]]

\* C7: when all N results are failures the result has success = false,
\* text = "" and chunk_errors with exactly N entries, each with its chunk's
\* index and error message.
C7_TotalFailureHasEmptyText ==
    (MultiReturned /\ NumSuccesses = 0) =>
        /\ ~ret.success
        /\ "text" \in DOMAIN ret
        /\ ret.text = ""
        /\ ret.chunk_errors = ExpectedErrors

\* the duration a chunk result reports (0 when it reports none)
DurationOf(chunk) == IF chunk.duration = None THEN 0 ELSE Val(chunk.duration)

RECURSIVE SumDurations(_)
SumDurations(chunk_list) ==
    IF chunk_list = <<>> THEN 0
    ELSE DurationOf(Head(chunk_list)) + SumDurations(Tail(chunk_list))

\* the segments of the k-th success shifted by the durations of the successes
\* before it, text unchanged
ShiftedSegments(successes, k) ==
    LET offset == SumDurations(SubSeq(successes, 1, k - 1))
        segments == successes[k].segments
    IN  [m \in 1..Len(segments) |->
            [start |-> segments[m].start + offset,
             end |-> segments[m].end + offset,
             text |-> segments[m].text]]

RECURSIVE ExpectedSegments(_, _)
ExpectedSegments(successes, k) ==
    IF k > Len(successes) THEN <<>>
    ELSE ShiftedSegments(successes, k) \o ExpectedSegments(successes, k + 1)

AllReportDurationAndSegments ==
    \A k \in 1..Len(results) :
        results[k].success =>
            (results[k].duration # None /\ results[k].segments # <<>>)

\* C8: when the successful chunks all report a duration and all have
\* segments, every segment of the k-th of them is emitted with start and end
\* shifted by the sum of the durations of the ones before it and its text
\* unchanged, in chunk order (300 s, 300 s, 120 s with one segment 0..10 each
\* give the starts 0, 300, 600).
C8_SegmentsShiftedByPriorDurations ==
    (MultiReturned /\ ret.success /\ AllReportDurationAndSegments) =>
        ret.segments = ExpectedSegments(Successes(results), 1)

\* the example: durations 300, 300, 120 and one segment 0..10 per chunk
C8_Witness ==
    /\ MultiReturned
    /\ NumChunks = 3
    /\ NumSuccesses = 3
    /\ <<results[1].duration, results[2].duration, results[3].duration>>
          = <<Some(300), Some(300), Some(120)>>
    /\ \A k \in 1..3 : Len(results[k].segments) = 1 /\ results[k].segments[1].end = 10
    /\ <<ret.segments[1].start, ret.segments[2].start, ret.segments[3].start>>
          = <<0, 300, 600>>
    /\ ret.segments[3].end = 610

\* C9: the offset added to the segments of a successful chunk is the
\* cumulative reported duration of all successful chunks before it: each
\* successful chunk that reports a duration advances the offset whether or not
\* it has segments; failed chunks and chunks without a duration do not.
C9_OffsetIsCumulativeDuration ==
    (MultiReturned /\ ret.success) =>
        ret.segments = ExpectedSegments(Successes(results), 1)

\* C10: in a successful reassembly total_duration is the sum of the reported
\* durations of all successful chunks, and null exactly when that sum is 0.
C10_TotalDuration ==
    (MultiReturned /\ ret.success) =>
        ret.total_duration =
            (IF SumDurations(Successes(results)) > 0
             THEN Some(SumDurations(Successes(results))) ELSE None)

NonDecreasingStarts(segments) ==
    \A m \in 1..(Len(segments) - 1) : segments[m].start <= segments[m + 1].start

\* each chunk's own segment list is time-ordered and starts at or after 0
ChunkSegmentsTimeOrdered ==
    \A k \in 1..Len(results) :
        results[k].success =>
            /\ NonDecreasingStarts(results[k].segments)
            /\ \A m \in 1..Len(results[k].segments) : results[k].segments[m].start >= 0

\* every successful chunk that has segments reports a duration that reaches
\* the start of its last segment
DurationsCoverSegments ==
    \A k \in 1..Len(results) :
        (results[k].success /\ results[k].segments # <<>>) =>
            /\ results[k].duration # None
            /\ results[k].segments[Len(results[k].segments)].start <= Val(results[k].duration)

\* C11 as stated: when the chunk results are merged in index order and each
\* chunk's own segment list is time-ordered, the start timestamps of the
\* merged segments are non-decreasing.
C11_AsStated ==
    (MultiReturned /\ ret.success /\ ChunkSegmentsTimeOrdered) =>
        NonDecreasingStarts(ret.segments)

\* C11: when the chunk results are merged in index order, each chunk's own
\* segment list is time-ordered from 0 or later, and every successful chunk
\* that has segments reports a duration no smaller than the start of its last
\* segment, the start timestamps of the merged segments are non-decreasing.
C11_MergedStartsNonDecreasing ==
    (MultiReturned /\ ret.success /\ ChunkSegmentsTimeOrdered /\ DurationsCoverSegments) =>
        NonDecreasingStarts(ret.segments)

\* two chunks with two segments each merged to the starts 0, 10, 300, 310
C11_Witness ==
    /\ MultiReturned
    /\ ret.success
    /\ ChunkSegmentsTimeOrdered
    /\ DurationsCoverSegments
    /\ Len(ret.segments) = 4
    /\ <<ret.segments[1].start, ret.segments[2].start,
         ret.segments[3].start, ret.segments[4].start>> = <<0, 10, 300, 310>>

-----------------------------------------------------------------------------
(* Properties of transcribe_file on one chunk and on none, under Spec *)

SingleReturned == entry = "transcribe_file" /\ pc = "returned" /\ NumChunks = 1

\* the segments of the Transcriber's answer, [] when it carries none
RawSegments(outcome) ==
    IF "segments" \in DOMAIN outcome.response THEN outcome.response.segments ELSE <<>>

\* C13: for a list of exactly one chunk transcribe_file makes exactly one
\* Transcriber call, runs neither the Runner (no result list is built, no
\* chunk_index stamped) nor the Reassembler (no chunk counters, no
\* chunk_errors), and a successful result carries the Transcriber's raw
\* segments as they are.
C13_SingleChunkShortCircuit ==
    /\ (entry = "transcribe_file" /\ NumChunks = 1) =>
          (Len(calls) <= 1 /\ results = <<>> /\ i = 0)
    /\ SingleReturned =>
          /\ calls = <<0>>
          /\ DOMAIN ret \cap {"chunk_index", "total_chunks", "successful_chunks",
                               "chunk_errors"} = {}
          /\ ret.success = ~outcomes[1].raised
          /\ ret.success => ret.segments = RawSegments(outcomes[1])

\* one chunk whose answer has two segments, returned as they are
C13_Witness ==
    /\ SingleReturned
    /\ ret.success
    /\ calls = <<0>>
    /\ ret.segments = <<Seg(0, 10, "a"), Seg(10, 20, "b")>>

NonEmptyReturned == entry = "transcribe_file" /\ pc = "returned" /\ NumChunks >= 1

\* C14: for every non-empty chunk list the result of transcribe_file has the
\* same shape whether the single-chunk or the multi-chunk path ran and whether
\* or not chunks failed: it always carries success, text, language, segments,
\* total_chunks, successful_chunks, failed_chunks and total_duration, and
\* chunk_errors only when success is false.
C14_UniformResultShape ==
    NonEmptyReturned =>
        /\ {"success", "text", "language", "segments", "total_chunks",
            "successful_chunks", "failed_chunks", "total_duration"} \subseteq DOMAIN ret
        /\ "chunk_errors" \in DOMAIN ret => ~ret.success

\* C15: for an empty chunk list transcribe_file returns a failure result at
\* once: no Transcriber call is made and the observer is never notified.
C15_EmptyListFailsAtOnce ==
    (entry = "transcribe_file" /\ NumChunks = 0) =>
        /\ pc \in {"entry", "returned"}
        /\ calls = <<>>
        /\ progress = <<>>
        /\ results = <<>>
        /\ pc = "returned" =>
              ret = [success |-> FALSE, error |-> "No audio chunks provided"]

\* the empty list handed in with an observer, and the failure returned
C15_Witness ==
    /\ entry = "transcribe_file"
    /\ NumChunks = 0
    /\ observer # "none"
    /\ pc = "returned"
    /\ ~ret.success
    /\ progress = <<>>

-----------------------------------------------------------------------------
(* Properties of the Runner's order and of its notifications, under Spec *)

\* C17: the Runner is strictly sequential: it makes exactly one Transcriber
\* call per chunk, in ascending chunk-index order, starts the call for chunk
\* i+1 only when the call for chunk i has returned or failed, and never calls
\* again for a chunk that failed.
C17_RunnerStrictlySequential ==
    UsesRunner =>
        /\ calls = [k \in 1..Len(calls) |-> k - 1]
        /\ Len(outcomes) = Len(calls)
        /\ Len(results) = Len(calls)
        /\ \A k \in 1..Len(results) : results[k].success = ~outcomes[k].raised
        /\ pc = "runner" => i = Len(calls)
        /\ pc \in {"runner_returned", "returned"} => Len(calls) = NumChunks

\* three chunks of which the first two failed: three calls, 0, 1, 2
C17_Witness ==
    /\ RunnerReturned
    /\ pc \in {"runner_returned", "returned"}
    /\ NumChunks = 3
    /\ calls = <<0, 1, 2>>
    /\ outcomes[1].raised
    /\ outcomes[2].raised
    /\ ~outcomes[3].raised

\* comparison of fractions with positive denominators
FracLeq(f, g) == f[1] * g[2] <= g[1] * f[2]
FracEq(f, g) == f[1] * g[2] = g[1] * f[2]

RunnerCalledDirectly == entry = "transcribe_chunks_sequential" /\ observer # "none"

\* C18: the fractions transcribe_chunks_sequential hands to the observer never
\* decrease (no notification carries a smaller fraction than an earlier one),
\* each lies in [0, 1], and the notification sent after the k-th chunk has
\* been processed carries k/N.
C18_RunnerProgressMonotone ==
    RunnerCalledDirectly =>
        /\ \A k \in 1..Len(progress) :
              FracLeq(Frac(0, 1), progress[k]) /\ FracLeq(progress[k], Frac(1, 1))
        /\ \A j, k \in 1..Len(progress) : j < k => FracLeq(progress[j], progress[k])
        /\ \A k \in 1..Len(calls) :
              /\ FracEq(progress[2 * k - 1], Frac(k - 1, NumChunks))
              /\ 2 * k <= Len(progress) => FracEq(progress[2 * k], Frac(k, NumChunks))
        /\ pc = "runner_returned" => Len(progress) = 2 * NumChunks

\* three chunks: the observer saw 0/3, 1/3, 1/3, 2/3, 2/3, 3/3
C18_Witness ==
    /\ RunnerCalledDirectly
    /\ pc = "runner_returned"
    /\ NumChunks = 3
    /\ progress = <<Frac(0, 3), Frac(1, 3), Frac(1, 3), Frac(2, 3), Frac(2, 3), Frac(3, 3)>>

\* C19: observer failures are ignored: if the observer raises on any
\* notification the Runner still transcribes every chunk and transcribe_file
\* still returns its result; the exception neither aborts the batch nor
\* leaves the pipeline.
C19_ObserverFailuresIgnored ==
    /\ pc # "raised"
    /\ pc \in {"runner_returned", "returned"} => Len(calls) = NumChunks

FileMultiCall == entry = "transcribe_file" /\ NumChunks > 1 /\ observer # "none"

\* C26: over one whole multi-chunk transcribe_file call, its own notifications
\* interleaved with the Runner's, the fractions handed to the observer never
\* decrease from one notification to the next, every fraction lies in
\* [0, 1], and the last notification is 1.0, also when every chunk failed.
C26_WholeCallProgressMonotone ==
    FileMultiCall =>
        /\ \A k \in 1..Len(progress) :
              FracLeq(Frac(0, 1), progress[k]) /\ FracLeq(progress[k], Frac(1, 1))
        /\ \A k \in 1..(Len(progress) - 1) : FracLeq(progress[k], progress[k + 1])
        /\ pc = "returned" => FracEq(progress[Len(progress)], Frac(1, 1))

-----------------------------------------------------------------------------
(* Properties of reassemble_transcription called directly: SpecReassemble *)

Reassembled == pc \in {"reassembled", "reassembled_twice"}

\* the chunk results of a list put in ascending order of chunk_index
ByIndex(chunk_results) ==
    [k \in 1..Len(chunk_results) |->
        chunk_results[CHOOSE j \in 1..Len(chunk_results) :
                          chunk_results[j].chunk_index = k - 1]]

\* C12: the reassembler merges by chunk index, not by list position: for any
\* ordering of the same chunk results the merged text is the successful
\* chunks' non-empty texts in ascending chunk_index order joined by a single
\* space, and the segments are merged in the same index order.
C12_MergedByChunkIndex ==
    (Reassembled /\ first_ret.success) =>
        LET in_index_order == Successes(ByIndex(given)) IN
        /\ first_ret.text = JoinSpace(TextsOf(in_index_order))
        /\ first_ret.segments =
              MergeLoop(in_index_order, [all_segments |-> <<>>, time_offset |-> 0]).all_segments

\* C16: reassembling the same list twice returns identical results, and a
\* reassembly leaves its input as it was: the chunk results and their segments
\* keep their original timestamps, the shifted ones being written to copies.
C16_ReassemblyIdempotentInputUnchanged ==
    /\ Reassembled => results = given
    /\ pc = "reassembled_twice" => ret = first_ret

\* two chunks with a segment 0..10 each, reassembled twice: the second
\* segment comes out at 300 both times and is still at 0 in the input
C16_Witness ==
    /\ pc = "reassembled_twice"
    /\ Len(given) = 2
    /\ ret.success
    /\ Len(ret.segments) = 2
    /\ ret.segments[2].start = 300
    /\ first_ret.segments[2].start = 300
    /\ results[2].segments[1].start = 0

ReportsLanguage(chunk) == Get(chunk, "language", None) # None

\* C20: in a successful reassembly language is the language reported by the
\* first successful chunk, in order, that reports one, and is "unknown" when
\* no successful chunk reports a language; it is never null or absent.
C20_LanguageOfFirstReportingChunk ==
    (Reassembled /\ first_ret.success) =>
        LET reporting == SelectSeq(Successes(given), ReportsLanguage) IN
        /\ "language" \in DOMAIN first_ret
        /\ first_ret.language =
              (IF reporting = <<>> THEN Some("unknown") ELSE reporting[1].language)

-----------------------------------------------------------------------------
(* Properties of the partitioner at its edges, checked under SpecPartition *)

ZeroLengthBuffer == fn = "chunk_audio" /\ audio_length = 0 /\ chunk_duration_ms > 0

\* C24: chunk_audio on a zero-length audio buffer (with a valid bound, > 0)
\* returns zero chunks and raises no error.
C24_ZeroLengthYieldsNoChunks ==
    ZeroLengthBuffer =>
        /\ ppc \in {"loop", "done"}
        /\ chunks = <<>>
        /\ start_ms = 0

\* the zero-length buffer handed in with the largest bound, and [] returned
C24_Witness ==
    /\ ZeroLengthBuffer
    /\ chunk_duration_ms = MaxChunkMs
    /\ ppc = "done"
    /\ Len(chunks) = 0

\* C25: a duration bound <= 0 passed to chunk_audio is rejected with an error
\* reported to the caller before any slicing: the partitioner never returns a
\* chunk list for such a bound.
C25_InvalidBoundRejected ==
    (fn = "chunk_audio" /\ chunk_duration_ms <= 0) =>
        /\ ppc # "done"
        /\ chunks = <<>>

-----------------------------------------------------------------------------
(* Properties of two transcribe_file calls in a row: SpecTwice *)

\* C23: pipeline invocations are independent: a second transcribe_file call
\* on the same service with the same chunk list, language hint and
\* Transcriber responses returns a result equal to the first's, and no step
\* of either call changes the service's model or prompt_context or the
\* caller's chunk list.
C23_InvocationsIndependent ==
    /\ []((invocation = 2 /\ pc = "returned") => ret = first_ret)
    /\ [][service' = service /\ chunk_paths' = chunk_paths /\ language' = language]_vars

\* a two-chunk list transcribed twice on a service with a prompt context
C23_Witness ==
    /\ invocation = 2
    /\ pc = "returned"
    /\ NumChunks = 2
    /\ service.prompt_context # None
    /\ ret.success
    /\ ret.total_chunks = 2
    /\ first_ret.total_chunks = 2

-----------------------------------------------------------------------------
(* Properties of save_chunks, process_file and process_batch_files: SpecBatch *)

\* C21: in save_chunks an encoding failure for chunk i is a terminal error for
\* chunk i only: the sibling chunks are still written and their artifacts are
\* still returned.
C21_EncodingFailureIsolated ==
    \A e \in 1..Len(exports) :
        LET call == exports[e] IN
        call.fail_at # 0 =>
            \A k \in (1..call.n_chunks) \ {call.fail_at} :
                /\ \E w \in 1..Len(writes) : writes[w].path = ChunkPath(call.base_name, k - 1)
                /\ \E f \in 1..Len(processed) :
                      /\ processed[f].file_index = call.file_index
                      /\ \E c \in 1..Len(processed[f].chunk_paths) :
                            processed[f].chunk_paths[c] = ChunkPath(call.base_name, k - 1)

\* C22: the temporary storage allocated for a run (the AudioProcessor's temp
\* directory and the artifacts written in it) is released on every exit path
\* of the run: no run ends with its storage still allocated.
C22_StorageReleasedOnExit ==
    bpc = "returned" => temp_dir # "allocated"

\* C27: process_file never returns an empty chunk path list for a file that
\* passes validation: it returns exactly one path when the decoded audio is at
\* most 25 MB (zero-length audio included) and otherwise one path per
\* 10-minute span, ceil(D / 600000) of them, in chunk order.
C27_ProcessedFileHasChunkPaths ==
    \A f \in 1..Len(processed) :
        LET item == processed[f]
            base_name == files[item.file_index + 1].name.base
            n_paths == Len(item.chunk_paths)
        IN  /\ n_paths >= 1
            /\ n_paths = (IF item.info.size_bytes <= MAX_CHUNK_SIZE THEN 1
                          ELSE Ceil(item.info.duration_ms, FixedChunkMs))
            /\ \A k \in 1..n_paths : item.chunk_paths[k] = ChunkPath(base_name, k - 1)

\* a zero-length file processed to one path and a file over 25 MB to two
C27_Witness ==
    /\ bpc = "returned"
    /\ Len(processed) = 2
    /\ processed[1].info.duration_ms = 0
    /\ Len(processed[1].chunk_paths) = 1
    /\ processed[2].info.size_bytes > MAX_CHUNK_SIZE
    /\ Len(processed[2].chunk_paths) = 2

\* C28: within one process_batch_files call (one shared temp directory) the
\* paths written for different input files are pairwise distinct, chunk
\* artifacts and loaded temp copies alike, so no file's artifact is
\* overwritten or referenced by another file's processing, also when two
\* uploaded files have the same name or the same base name.
C28_ArtifactPathsDistinct ==
    \A j, k \in 1..Len(writes) :
        writes[j].file_index # writes[k].file_index => writes[j].path # writes[k].path

RECURSIVE SumProcessedDurations(_)
SumProcessedDurations(items) ==
    IF items = <<>> THEN 0
    ELSE Head(items).info.duration_ms + SumProcessedDurations(Tail(items))

IndicesOf(items) == {items[k].file_index : k \in 1..Len(items)}

InInputOrder(items) ==
    \A j, k \in 1..Len(items) : j < k => items[j].file_index < items[k].file_index

\* C29: process_batch_files places every input file in exactly one of the
\* lists 'processed' and 'failed', in input order within each list; a failure
\* of one file never prevents the later files from being processed; and
\* total_duration is the sum of the durations of the processed files only.
C29_EveryFileProcessedOrFailed ==
    /\ IndicesOf(processed) \cup IndicesOf(failed_files) = 0..(file_index - 1)
    /\ IndicesOf(processed) \cap IndicesOf(failed_files) = {}
    /\ Len(processed) + Len(failed_files) = file_index
    /\ InInputOrder(processed)
    /\ InInputOrder(failed_files)
    /\ \A k \in 1..Len(processed) :
          processed[k].filename = NameOf(files[processed[k].file_index + 1].name)
    /\ \A k \in 1..Len(failed_files) :
          failed_files[k].filename = NameOf(files[failed_files[k].file_index + 1].name)
    /\ total_duration = SumProcessedDurations(processed)
    /\ bpc = "returned" => file_index = Len(files)

\* a file that failed followed by a file that was processed
C29_Witness ==
    /\ bpc = "returned"
    /\ Len(files) = 2
    /\ Len(failed_files) = 1
    /\ failed_files[1].file_index = 0
    /\ Len(processed) = 1
    /\ processed[1].file_index = 1
    /\ total_duration = 60000

-----------------------------------------------------------------------------
(* Properties of translate_parallel: SpecTranslate *)

\* the result of the task submitted at position k
ResultOfTask(k) == translate_result(target_languages[k], worker_outcomes[k])

\* the results in submission order, sorted: a list fixed by the arguments and
\* the workers' outcomes alone
CanonicalTranslations ==
    SortByLanguageStable([k \in 1..Len(target_languages) |-> ResultOfTask(k)])

Occurrences(list, x) == Cardinality({k \in 1..Len(list) : list[k] = x})

OneResultPerEntry ==
    /\ Len(translations) = Len(target_languages)
    /\ \A k \in 1..Len(target_languages) :
          Occurrences(translations, ResultOfTask(k))
              = Cardinality({j \in 1..Len(target_languages) : ResultOfTask(j) = ResultOfTask(k)})

SortedByLanguage ==
    \A k \in 1..(Len(translations) - 1) :
        KeyRank(translations[k].target_language)
            <= KeyRank(translations[k + 1].target_language)

DistinctLanguages ==
    \A j, k \in 1..Len(target_languages) :
        j # k => target_languages[j] # target_languages[k]

\* C30 as stated: translate_parallel returns exactly one result per entry of
\* target_languages, for every completion order and whether the translations
\* succeed or fail, and the list is sorted by target_language, so the output
\* does not depend on the completion order.
C30_AsStated ==
    lpc = "returned" =>
        /\ OneResultPerEntry
        /\ SortedByLanguage
        /\ translations = CanonicalTranslations

\* C30: translate_parallel returns exactly one result per entry of
\* target_languages, for every completion order and whether the translations
\* succeed or fail, and the list is sorted by target_language; when the
\* entries of target_languages are pairwise distinct the output does not
\* depend on the completion order.
C30_OneSortedResultPerLanguage ==
    lpc = "returned" =>
        /\ OneResultPerEntry
        /\ SortedByLanguage
        /\ DistinctLanguages => translations = CanonicalTranslations

\* "fr" then "es" asked, "fr" failing and "es" translated: "es", "fr" returned
C30_Witness ==
    /\ lpc = "returned"
    /\ target_languages = <<"fr", "es">>
    /\ worker_outcomes[1].kind = "raised"
    /\ worker_outcomes[2].kind = "translated"
    /\ translations[1].target_language = "es"
    /\ translations[1].success
    /\ translations[2].target_language = "fr"
    /\ ~translations[2].success

=============================================================================
